---- MODULE Spec2Model ----
(***************************************************************************)
(* Model of src/app.py: parse_input_data, is_inside, cohen_sutherland_clip *)
(* and sutherland_hodgman_clip.                                            *)
(*                                                                         *)
(* Python floats are modelled as binary floating-point numbers with        *)
(* MantissaBits significant bits, round-to-nearest-even after every        *)
(* arithmetic operation and an unbounded exponent (binary64 has 53 bits).  *)
(* A float is the pair <<n, d>> of its value n/d, d a power of two, in     *)
(* lowest terms.  Python exceptions are modelled as outcome records.       *)
(***************************************************************************)
EXTENDS Integers, Sequences, FiniteSets, TLC

VARIABLES pc, data, segment, polygon, clipping_window, result, again

vars == <<pc, data, segment, polygon, clipping_window, result, again>>

----------------------------------------------------------------------------
(* Bounds of the model *)

\* significant bits of the modelled float format
MantissaBits == 5
\* segment endpoint coordinates range over -1..CoordMax
CoordMax == 2
\* window coordinates range over 0..WinMax
WinMax == 1
\* polygon vertex coordinates range over -1..PolyMax
PolyMax == 1
\* polygons have 1..MaxVertices vertices
MaxVertices == 2
\* the triangles of SpecTriangle have coordinates in -1..TriMax
TriMax == 2
\* input texts have at most MaxLines lines
MaxLines == 4
\* a line has at most MaxTokens tokens
MaxTokens == 4

----------------------------------------------------------------------------
(* Float arithmetic *)

Abs(n) == IF n < 0 THEN -n ELSE n

RECURSIVE Pow2(_)
Pow2(k) == IF k = 0 THEN 1 ELSE 2 * Pow2(k - 1)

\* n/d in lowest terms, d a power of two
RECURSIVE Reduce(_, _)
Reduce(n, d) ==
    IF d > 1 /\ n % 2 = 0 THEN Reduce(n \div 2, d \div 2) ELSE <<n, d>>

\* a/d rounded to the nearest integer, ties to even (a >= 0, d > 0)
RoundHalfEven(a, d) ==
    LET m == a \div d
        r == a - m * d
    IN  IF 2 * r > d \/ (2 * r = d /\ m % 2 = 1) THEN m + 1 ELSE m

\* mantissas m satisfy MantissaLow <= m < MantissaHigh
MantissaHigh == Pow2(MantissaBits)
MantissaLow == Pow2(MantissaBits - 1)

\* a/d = (a'/d') * up/dn with MantissaLow <= a'/d' < MantissaHigh;
\* the result is <<round(a'/d'), up, dn>>
RECURSIVE Scale(_, _, _, _)
Scale(a, d, up, dn) ==
    IF a >= d * MantissaHigh THEN Scale(a, 2 * d, 2 * up, dn)
    ELSE IF a < d * MantissaLow THEN Scale(2 * a, d, up, 2 * dn)
    ELSE <<RoundHalfEven(a, d), up, dn>>

\* the float nearest to the rational n/d (d > 0)
Fl(n, d) ==
    IF n = 0 THEN <<0, 1>>
    ELSE LET s == Scale(Abs(n), d, 1, 1)
             m == IF n < 0 THEN -s[1] ELSE s[1]
         IN  Reduce(m * s[2], s[3])

\* float(k) of a small integer token
Float(k) == Fl(k, 1)

Zero == <<0, 1>>
One == <<1, 1>>

FAdd(x, y) == Fl(x[1] * y[2] + y[1] * x[2], x[2] * y[2])
FSub(x, y) == Fl(x[1] * y[2] - y[1] * x[2], x[2] * y[2])
FMul(x, y) == Fl(x[1] * y[1], x[2] * y[2])
\* x / y for y # 0
FDiv(x, y) ==
    IF y[1] > 0 THEN Fl(x[1] * y[2], x[2] * y[1])
    ELSE Fl(-(x[1] * y[2]), x[2] * (-y[1]))

Leq(x, y) == x[1] * y[2] <= y[1] * x[2]
Lt(x, y) == x[1] * y[2] < y[1] * x[2]

----------------------------------------------------------------------------
(* Outcomes of a call: a returned value or a raised exception *)

Returned(v) == [exc |-> "", val |-> <<v>>]
ReturnedNone == [exc |-> "", val |-> <<>>]
Raised(e) == [exc |-> e, val |-> <<>>]

\* Python's x / y on floats
TrueDiv(x, y) ==
    IF y = Zero THEN Raised("ZeroDivisionError") ELSE Returned(FDiv(x, y))

\* seq[0] and seq[-1] of a Python list
First(seq) == IF seq = <<>> THEN Raised("IndexError") ELSE Returned(seq[1])
Last(seq) == IF seq = <<>> THEN Raised("IndexError") ELSE Returned(seq[Len(seq)])

----------------------------------------------------------------------------
(* is_inside and cohen_sutherland_clip *)

is_inside(point, window) ==
    /\ Leq(window[1], point[1]) /\ Leq(point[1], window[3])
    /\ Leq(window[2], point[2]) /\ Leq(point[2], window[4])

\* compute_t with the range test 0 < t <= 1
compute_t_open(boundary_value, start, delta) ==
    IF delta = Zero THEN ReturnedNone
    ELSE LET q == TrueDiv(FSub(boundary_value, start), delta)
         IN  IF q.exc # "" THEN q
             ELSE IF Lt(Zero, q.val[1]) /\ Leq(q.val[1], One) THEN q
             ELSE ReturnedNone

compute_t(boundary_value, start, delta) ==
    IF delta = Zero THEN ReturnedNone
    ELSE LET q == TrueDiv(FSub(boundary_value, start), delta)
         IN  IF q.exc # "" THEN q
             ELSE IF Leq(Zero, q.val[1]) /\ Leq(q.val[1], One) THEN q
             ELSE ReturnedNone

\* sorted(): insertion of t into an ascending sequence, after its equals
RECURSIVE Insert(_, _)
Insert(t, seq) ==
    IF seq = <<>> THEN <<t>>
    ELSE IF Lt(t, seq[1]) THEN <<t>> \o seq
    ELSE <<seq[1]>> \o Insert(t, Tail(seq))

RECURSIVE sorted(_)
sorted(seq) ==
    IF seq = <<>> THEN <<>> ELSE Insert(seq[Len(seq)], sorted(SubSeq(seq, 1, Len(seq) - 1)))

\* the four candidates in the order left, right, bottom, top
Candidates(seg, window) ==
    LET x1 == seg[1][1]
        y1 == seg[1][2]
        x2 == seg[2][1]
        y2 == seg[2][2]
    IN  << compute_t(window[1], x1, FSub(x2, x1)),
           compute_t(window[3], x1, FSub(x2, x1)),
           compute_t(window[2], y1, FSub(y2, y1)),
           compute_t(window[4], y1, FSub(y2, y1)) >>

\* t_values after the four appends (both branches of each inside test append)
RECURSIVE Appended(_, _, _, _)
Appended(cands, i, seg, window) ==
    IF i = 0 THEN <<>>
    ELSE LET before == Appended(cands, i - 1, seg, window)
         IN  IF cands[i].val = <<>> THEN before
             ELSE IF is_inside(seg[1], window) THEN Append(before, cands[i].val[1])
             ELSE Append(before, cands[i].val[1])

t_values(seg, window) == sorted(Appended(Candidates(seg, window), 4, seg, window))

\* the point x1 + t * (x2 - x1), y1 + t * (y2 - y1)
PointAt(seg, t) ==
    << FAdd(seg[1][1], FMul(t, FSub(seg[2][1], seg[1][1]))),
       FAdd(seg[1][2], FMul(t, FSub(seg[2][2], seg[1][2]))) >>

cohen_sutherland_clip(seg, window) ==
    LET cands == Candidates(seg, window)
        tv == t_values(seg, window)
    IN  IF \E i \in 1..4 : cands[i].exc # ""
        THEN cands[CHOOSE i \in 1..4 : cands[i].exc # "" /\ \A j \in 1..(i - 1) : cands[j].exc = ""]
        ELSE IF is_inside(seg[1], window) /\ is_inside(seg[2], window)
        THEN Returned(seg)
        ELSE IF is_inside(seg[1], window)
        THEN LET t == First(tv)
             IN  IF t.exc # "" THEN t ELSE Returned(<<seg[1], PointAt(seg, t.val[1])>>)
        ELSE IF is_inside(seg[2], window)
        THEN LET t == Last(tv)
             IN  IF t.exc # "" THEN t ELSE Returned(<<PointAt(seg, t.val[1]), seg[2]>>)
        ELSE IF Len(tv) >= 2
        THEN Returned(<<PointAt(seg, tv[1]), PointAt(seg, tv[2])>>)
        ELSE ReturnedNone

----------------------------------------------------------------------------
(* sutherland_hodgman_clip *)

Edges == <<"left", "bottom", "right", "top">>

\* the coordinate index a stage tests (Python axis 0 / 1)
Axis(edge) == IF edge \in {"left", "right"} THEN 1 ELSE 2

Boundary(edge, window) ==
    CASE edge = "left" -> window[1]
      [] edge = "bottom" -> window[2]
      [] edge = "right" -> window[3]
      [] edge = "top" -> window[4]

\* the acceptance tests with strict comparisons
AcceptStrict(p, edge, window) ==
    CASE edge = "left" -> Lt(window[1], p[1])
      [] edge = "bottom" -> Lt(window[2], p[2])
      [] edge = "right" -> Lt(p[1], window[3])
      [] edge = "top" -> Lt(p[2], window[4])

\* accept_p1 / accept_p0 of a stage
Accept(p, edge, window) ==
    CASE edge = "left" -> Leq(window[1], p[1])
      [] edge = "bottom" -> Leq(window[2], p[2])
      [] edge = "right" -> Leq(p[1], window[3])
      [] edge = "top" -> Leq(p[2], window[4])

\* the interpolated point p0 + t * (p1 - p0)
Interpolate(p0, p1, t) ==
    << FAdd(p0[1], FMul(t, FSub(p1[1], p0[1]))),
       FAdd(p0[2], FMul(t, FSub(p1[2], p0[2]))) >>

\* the loop body with t computed ahead of the acceptance tests
LoopBodyEager(st, p1, edge, window) ==
    LET p0 == st.p0
        axis == Axis(edge)
        delta == FSub(p1[axis], p0[axis])
        t == TrueDiv(FSub(Boundary(edge, window), p0[axis]), delta)
        crossing == Interpolate(p0, p1, t.val[1])
    IN  IF t.exc # "" THEN [st EXCEPT !.exc = t.exc]
        ELSE IF Accept(p1, edge, window)
        THEN IF ~Accept(p0, edge, window)
             THEN [st EXCEPT !.new_polygon = st.new_polygon \o <<crossing, p1>>, !.p0 = p1]
             ELSE [st EXCEPT !.new_polygon = Append(st.new_polygon, p1), !.p0 = p1]
        ELSE IF Accept(p0, edge, window)
             THEN [st EXCEPT !.new_polygon = Append(st.new_polygon, crossing), !.p0 = p1]
             ELSE [st EXCEPT !.p0 = p1]

\* one iteration of the loop over p1; st = [exc, new_polygon, p0]
LoopBody(st, p1, edge, window) ==
    LET p0 == st.p0
        axis == Axis(edge)
        delta == FSub(p1[axis], p0[axis])
        t == TrueDiv(FSub(Boundary(edge, window), p0[axis]), delta)
        crossing == Interpolate(p0, p1, t.val[1])
    IN  IF Accept(p1, edge, window)
        THEN IF ~Accept(p0, edge, window)
             THEN IF t.exc # "" THEN [st EXCEPT !.exc = t.exc]
                  ELSE IF delta = Zero THEN st
                  ELSE [st EXCEPT !.new_polygon = st.new_polygon \o <<crossing, p1>>,
                                  !.p0 = p1]
             ELSE [st EXCEPT !.new_polygon = Append(st.new_polygon, p1), !.p0 = p1]
        ELSE IF Accept(p0, edge, window)
             THEN IF t.exc # "" THEN [st EXCEPT !.exc = t.exc]
                  ELSE IF delta = Zero THEN st
                  ELSE [st EXCEPT !.new_polygon = Append(st.new_polygon, crossing),
                                  !.p0 = p1]
             ELSE [st EXCEPT !.p0 = p1]

\* the loop state after the first i vertices
RECURSIVE Loop(_, _, _, _)
Loop(poly, i, edge, window) ==
    IF i = 0 THEN [exc |-> "", new_polygon |-> <<>>, p0 |-> poly[Len(poly)]]
    ELSE LET st == Loop(poly, i - 1, edge, window)
         IN  IF st.exc # "" THEN st ELSE LoopBody(st, poly[i], edge, window)

clip_edge(poly, edge, window) ==
    IF Last(poly).exc # "" THEN Last(poly)
    ELSE LET st == Loop(poly, Len(poly), edge, window)
         IN  IF st.exc # "" THEN Raised(st.exc) ELSE Returned(st.new_polygon)

\* the polygon after the first k stages
RECURSIVE Stages(_, _, _)
Stages(poly, k, window) ==
    IF k = 0 THEN Returned(poly)
    ELSE LET before == Stages(poly, k - 1, window)
         IN  IF before.exc # "" THEN before
             ELSE clip_edge(before.val[1], Edges[k], window)

sutherland_hodgman_clip(poly, window) == Stages(poly, 4, window)

----------------------------------------------------------------------------
(* parse_input_data *)

\* A line of text is [P, toks]: P says whether it starts with the letter P,
\* toks are its whitespace-separated tokens (after the P, when P holds).
\* A token is a numeral or the non-numeric word "x".
Numerals == {"0", "1", "2"}
Tokens == Numerals \cup {"x"}

\* the integer a numeral denotes
Value(tok) == CASE tok = "0" -> 0 [] tok = "1" -> 1 [] tok = "2" -> 2

\* line.strip() is empty
IsBlank(line) == ~line.P /\ line.toks = <<>>

\* list(map(float, line.split())): a line starting with P has a first token
\* that is no number
Floats(line) ==
    IF line.P \/ \E i \in 1..Len(line.toks) : line.toks[i] \notin Numerals
    THEN Raised("ValueError: could not convert string to float")
    ELSE Returned([i \in 1..Len(line.toks) |-> Float(Value(line.toks[i]))])

\* list(map(float, line[1:].split())) of a line that starts with P
FloatsAfterP(line) ==
    IF \E i \in 1..Len(line.toks) : line.toks[i] \notin Numerals
    THEN Raised("ValueError: could not convert string to float")
    ELSE Returned([i \in 1..Len(line.toks) |-> Float(Value(line.toks[i]))])

\* int(data[0])
ParseInt(line) ==
    IF line.P \/ Len(line.toks) # 1 \/ line.toks \notin [1..1 -> Numerals]
    THEN Raised("ValueError: invalid literal for int()")
    ELSE Returned(Value(line.toks[1]))

\* data[i] of Python (0-based) on the list lines
Item(lines, i) ==
    IF i < 0 \/ i >= Len(lines) THEN Raised("IndexError") ELSE Returned(lines[i + 1])

\* the loop over i in range(1, n + 1), after iteration k: [exc, at, segments],
\* at the line number i + 1 a message cites
RECURSIVE SegmentLoop(_, _)
SegmentLoop(lines, k) ==
    IF k = 0 THEN [exc |-> "", at |-> <<>>, segments |-> <<>>]
    ELSE LET st == SegmentLoop(lines, k - 1)
             line == Item(lines, k)
             coords == Floats(line.val[1])
         IN  IF st.exc # "" THEN st
             ELSE IF line.exc # "" THEN [st EXCEPT !.exc = line.exc]
             ELSE IF IsBlank(line.val[1])
             THEN [st EXCEPT !.exc = "ValueError: Missing segment data at line", !.at = <<k + 1>>]
             ELSE IF coords.exc # "" THEN [st EXCEPT !.exc = coords.exc]
             ELSE IF Len(coords.val[1]) # 4
             THEN [st EXCEPT !.exc = "ValueError: Invalid segment data at line", !.at = <<k + 1>>]
             ELSE [st EXCEPT !.segments =
                      Append(st.segments, << <<coords.val[1][1], coords.val[1][2]>>,
                                             <<coords.val[1][3], coords.val[1][4]>> >>)]

\* the optional polygon line data[n + 2]
PolygonOf(lines, n) ==
    IF ~(Len(lines) > n + 2) THEN Returned(<<>>)
    ELSE LET line == lines[n + 3]
             vertices == FloatsAfterP(line)
         IN  IF ~line.P
             THEN Raised("ValueError: Invalid data format. Expected polygon data starting with 'P'.")
             ELSE IF vertices.exc # "" THEN vertices
             ELSE IF Len(vertices.val[1]) < 2
             THEN Raised("ValueError: Invalid polygon data. At least one vertex required.")
             ELSE IF Len(vertices.val[1]) % 2 # 0
             THEN Raised("ValueError: Invalid polygon data. Coordinates must be in pairs.")
             ELSE Returned([i \in 1..(Len(vertices.val[1]) \div 2) |->
                              <<vertices.val[1][2 * i - 1], vertices.val[1][2 * i]>>])

parse_input_data(lines) ==
    IF lines = <<>> THEN Raised("ValueError: No input data provided.")
    ELSE LET n == ParseInt(lines[1])
             st == SegmentLoop(lines, n.val[1])
             window == Floats(lines[n.val[1] + 2])
             poly == PolygonOf(lines, n.val[1])
         IN  IF n.exc # "" THEN n
             ELSE IF st.exc # "" THEN [exc |-> st.exc, val |-> st.at]
             ELSE IF Len(lines) < n.val[1] + 2
             THEN Raised("ValueError: Missing clipping window data.")
             ELSE IF window.exc # "" THEN window
             ELSE IF Len(window.val[1]) # 4
             THEN Raised("ValueError: Invalid clipping window data. Expected 4 coordinates.")
             ELSE IF poly.exc # "" THEN poly
             ELSE Returned([segments |-> st.segments,
                            clipping_window |-> window.val[1],
                            polygon |-> poly.val[1]])

----------------------------------------------------------------------------
(* Inputs *)

WindowCoords == 0..WinMax

Windows ==
    { <<Float(a), Float(b), Float(c), Float(d)>> :
        <<a, b, c, d>> \in { w \in WindowCoords \X WindowCoords \X WindowCoords \X WindowCoords :
                               w[1] <= w[3] /\ w[2] <= w[4] } }

Points(xs, ys) == { <<Float(x), Float(y)>> : <<x, y>> \in xs \X ys }

Segments == Points(-1..CoordMax, -1..CoordMax) \X Points(-1..CoordMax, -1..CoordMax)

Polygons == UNION { [1..n -> Points(-1..PolyMax, -1..PolyMax)] : n \in 1..MaxVertices }

Triangles(hi) == [1..3 -> Points(-1..hi, -1..hi)]

\* token sequences: ones, the last token possibly the non-numeric word
TokenSeqs ==
    UNION { { [i \in 1..k |-> "1"], [i \in 1..k |-> IF i = k THEN "x" ELSE "1"] } :
              k \in 0..MaxTokens }

Lines == [P : BOOLEAN, toks : TokenSeqs]

Headers == { [P |-> FALSE, toks |-> t] : t \in {<<>>} \cup [1..1 -> Tokens] }

Texts(maxLines) ==
    {<<>>} \cup
    UNION { { <<h>> \o body : h \in Headers, body \in [1..n -> Lines] } :
              n \in 0..(maxLines - 1) }

NoSegment == <<>>
NoPolygon == <<>>
NoWindow == <<>>
NoData == <<>>
Pending == [exc |-> "pending", val |-> <<>>]

----------------------------------------------------------------------------
(* The state machine: one call of a clipper on an input, then a second call
   on what the first returned *)

InitSegment ==
    /\ pc = "segment"
    /\ segment \in Segments
    /\ clipping_window \in Windows
    /\ polygon = NoPolygon
    /\ data = NoData
    /\ result = Pending
    /\ again = Pending

InitPolygon ==
    /\ pc = "polygon"
    /\ polygon \in Polygons
    /\ clipping_window \in Windows
    /\ segment = NoSegment
    /\ data = NoData
    /\ result = Pending
    /\ again = Pending

ClipSegment ==
    /\ pc = "segment"
    /\ result' = cohen_sutherland_clip(segment, clipping_window)
    /\ pc' = "segment_clipped"
    /\ UNCHANGED <<data, segment, polygon, clipping_window, again>>

ReclipSegment ==
    /\ pc = "segment_clipped"
    /\ result.exc = "" /\ result.val # <<>>
    /\ again' = cohen_sutherland_clip(result.val[1], clipping_window)
    /\ pc' = "segment_reclipped"
    /\ UNCHANGED <<data, segment, polygon, clipping_window, result>>

ClipPolygon ==
    /\ pc = "polygon"
    /\ result' = sutherland_hodgman_clip(polygon, clipping_window)
    /\ pc' = "polygon_clipped"
    /\ UNCHANGED <<data, segment, polygon, clipping_window, again>>

ReclipPolygon ==
    /\ pc = "polygon_clipped"
    /\ result.exc = ""
    /\ again' = sutherland_hodgman_clip(result.val[1], clipping_window)
    /\ pc' = "polygon_reclipped"
    /\ UNCHANGED <<data, segment, polygon, clipping_window, result>>

InitTriangle ==
    /\ pc = "polygon"
    /\ polygon \in Triangles(TriMax)
    /\ clipping_window \in Windows
    /\ segment = NoSegment
    /\ data = NoData
    /\ result = Pending
    /\ again = Pending

InitParse ==
    /\ pc = "data"
    /\ data \in Texts(MaxLines)
    /\ segment = NoSegment
    /\ polygon = NoPolygon
    /\ clipping_window = NoWindow
    /\ result = Pending
    /\ again = Pending

ParseInput ==
    /\ pc = "data"
    /\ result' = parse_input_data(data)
    /\ pc' = "parsed"
    /\ UNCHANGED <<data, segment, polygon, clipping_window, again>>

Init == InitSegment \/ InitPolygon

Next == ClipSegment \/ ReclipSegment \/ ClipPolygon \/ ReclipPolygon

Spec == Init /\ [][Next]_vars

\* the polygon clipper on triangles of a wider grid
NextPolygon == ClipPolygon \/ ReclipPolygon

SpecTriangle == InitTriangle /\ [][NextPolygon]_vars

\* the parser on input texts
SpecParse == InitParse /\ [][ParseInput]_vars


----------------------------------------------------------------------------
(* Properties *)

SegmentDone == pc = "segment_clipped"
PolygonDone == pc = "polygon_clipped"
ReturnedSegment(r) == r.exc = "" /\ r.val # <<>>

\* Exact geometry on the integer inputs: the segment p1 + t * (p2 - p1),
\* 0 <= t <= 1, meets the closed window iff it does so at t = 0, at t = 1 or
\* where it crosses one of the four boundary lines.  A constraint k reads
\* P[k] * t <= Q[k]; a candidate t is the fraction <<a, b>>, b > 0.
Intersects(seg, window) ==
    LET x1 == seg[1][1][1]
        y1 == seg[1][2][1]
        dx == seg[2][1][1] - x1
        dy == seg[2][2][1] - y1
        P == <<-dx, dx, -dy, dy>>
        Q == <<x1 - window[1][1], window[3][1] - x1, y1 - window[2][1], window[4][1] - y1>>
        T == {<<0, 1>>, <<1, 1>>}
               \cup { IF P[k] > 0 THEN <<Q[k], P[k]>> ELSE <<-Q[k], -P[k]>> :
                        k \in { j \in 1..4 : P[j] # 0 } }
    IN  \E t \in T : /\ 0 <= t[1] /\ t[1] <= t[2]
                     /\ \A k \in 1..4 : P[k] * t[1] <= Q[k] * t[2]

\* C1: whenever cohen_sutherland_clip returns a segment, both of its endpoints
\* satisfy is_inside for the window.
C1_ClippedSegmentInside ==
    (SegmentDone /\ ReturnedSegment(result)) =>
        /\ is_inside(result.val[1][1], clipping_window)
        /\ is_inside(result.val[1][2], clipping_window)

\* C2: cohen_sutherland_clip returns a segment if and only if some point of the
\* input segment lies in the closed window, and None otherwise.
C2_SegmentIffIntersects ==
    SegmentDone =>
        /\ result.exc = ""
        /\ (result.val # <<>>) <=> Intersects(segment, clipping_window)

\* all vertices lie strictly beyond the boundary of one stage
OutsideOneBoundary(poly, window) ==
    \E e \in 1..4 : \A i \in 1..Len(poly) : ~Accept(poly[i], Edges[e], window)

\* C3: a polygon whose vertices all lie strictly beyond one window boundary is
\* clipped to the empty sequence, returned normally.
C3_DisjointPolygonEmpty ==
    (PolygonDone /\ OutsideOneBoundary(polygon, clipping_window)) =>
        result = Returned(<<>>)

AllInside(poly, window) == \A i \in 1..Len(poly) : is_inside(poly[i], window)

\* C4: a polygon whose vertices all satisfy the closed inside test is returned
\* as the same vertex sequence.
C4_InsidePolygonUnchanged ==
    (PolygonDone /\ AllInside(polygon, clipping_window)) => result = Returned(polygon)

\* a polygon of distinct vertices, the first on the left boundary and the
\* second on the right boundary of a window of positive width, has come back
\* unchanged
C4_Witness ==
    /\ PolygonDone
    /\ AllInside(polygon, clipping_window)
    /\ Len(polygon) >= 2 /\ polygon[1] # polygon[2]
    /\ clipping_window[1] # clipping_window[3]
    /\ polygon[1][1] = clipping_window[1] /\ polygon[2][1] = clipping_window[3]
    /\ result = Returned(polygon)

\* C5: clipping what a clipper returned, against the same window, returns it
\* unchanged, for segments and for polygons (the empty polygon included).
C5_Idempotent ==
    pc \in {"segment_reclipped", "polygon_reclipped"} => again = result

\* the header declares n segments, the lines that follow are fewer than n and
\* each of them is a well-formed segment line
FewerSegmentLines(lines) ==
    /\ lines # <<>>
    /\ ParseInt(lines[1]).exc = ""
    /\ Len(lines) - 1 < ParseInt(lines[1]).val[1]
    /\ \A i \in 2..Len(lines) :
         Floats(lines[i]).exc = "" /\ Len(Floats(lines[i]).val[1]) = 4

\* C6: when fewer segment lines follow than the header declares,
\* parse_input_data fails with the ValueError for missing segment data.
C6_MissingSegmentLineIsParseError ==
    (pc = "parsed" /\ FewerSegmentLines(data)) =>
        result.exc = "ValueError: Missing segment data at line"

\* C7: every vertex sutherland_hodgman_clip returns satisfies the closed inside
\* test of the window.
C7_ClippedPolygonInside ==
    (PolygonDone /\ result.exc = "") => AllInside(result.val[1], clipping_window)

\* C8: with neither endpoint inside and at least 2 retained parameters, the
\* returned segment runs from the point at the smallest retained t to the point
\* at the largest retained t.
C8_SmallestAndLargest ==
    LET tv == t_values(segment, clipping_window)
    IN  ( /\ SegmentDone
          /\ ~is_inside(segment[1], clipping_window)
          /\ ~is_inside(segment[2], clipping_window)
          /\ Len(tv) >= 2 ) =>
            result = Returned(<<PointAt(segment, tv[1]), PointAt(segment, tv[Len(tv)])>>)

\* C9: neither clipper ever divides by zero, on first calls and on calls with
\* what a clipper returned.
C9_NoZeroDivision ==
    result.exc # "ZeroDivisionError" /\ again.exc # "ZeroDivisionError"

\* a two-vertex polygon with its edge parallel to the bottom and top boundaries
\* was clipped against a window of zero width and zero height, crossings were
\* interpolated, and the call returned
C9_Witness ==
    /\ PolygonDone
    /\ clipping_window[1] = clipping_window[3]
    /\ clipping_window[2] = clipping_window[4]
    /\ Len(polygon) = 2
    /\ polygon[1][2] = polygon[2][2] /\ polygon[1][1] # polygon[2][1]
    /\ result.exc = ""
    /\ \E i \in 1..Len(result.val[1]) :
         \A k \in 1..Len(polygon) : result.val[1][i] # polygon[k]

ExactlyOneInside(seg, window) == is_inside(seg[1], window) # is_inside(seg[2], window)

\* C10: when exactly one endpoint is inside, t_values is non-empty and the
\* function returns a segment (first calls and calls on a returned segment).
C10_OneInsideReturnsSegment ==
    /\ (SegmentDone /\ ExactlyOneInside(segment, clipping_window)) =>
          /\ t_values(segment, clipping_window) # <<>>
          /\ ReturnedSegment(result)
    /\ (pc = "segment_reclipped" /\ ExactlyOneInside(result.val[1], clipping_window)) =>
          /\ t_values(result.val[1], clipping_window) # <<>>
          /\ ReturnedSegment(again)

\* only p2 is inside, p1 is not, and the clipped segment was returned from the
\* single retained parameter
C10_Witness ==
    /\ SegmentDone
    /\ ~is_inside(segment[1], clipping_window)
    /\ is_inside(segment[2], clipping_window)
    /\ Len(t_values(segment, clipping_window)) = 1
    /\ ReturnedSegment(result)
    /\ result.val[1][1] # segment[1]

====
